---- MODULE Spec2Model ----
(***************************************************************************)
(* Credential lifecycle of the backend: the route handlers of              *)
(* app/api/endpoints/auth.py and app/main.py over the AuthService, whose   *)
(* operations are taken from the design document (section 4.1).            *)
(*                                                                         *)
(* Time is counted in minutes.  A user's identity is the normalized email. *)
(* A password is a sequence of characters; a response is a status code and *)
(* a body, the body being a tuple of strings.                              *)
(*                                                                         *)
(* A handler with one await is one step.  The resend-verification handler  *)
(* has two awaits and is two steps, so that the requests of two clients    *)
(* interleave between them.  The variable last holds the request answered  *)
(* last, with its inputs, until the answer is delivered.                   *)
(***************************************************************************)
EXTENDS Integers, Sequences, FiniteSets

\* ---------------------------------------------------------------- bounds
\* The number of tokens the token store holds; an operation that would issue
\* one more is not taken.
MaxTokens == 2

\* ------------------------------------------------------ program constants
ResendInterval == 2
VerificationTTL == 1440
ResetTTL == 60
MinPasswordLength == 8

\* ------------------------------------------------------------ input sets
Emails == {"a@x.com", "nobody@x.com"}

\* The clients that ask for a verification email; the requests of two
\* clients run concurrently.
Clients == {"c1", "c2"}

\* The emails that sign up; nobody@x.com is asked about but never registers.
Registrants == {"a@x.com"}

Letters == {"a", "b", "c", "d", "e", "f", "g", "h"}
Digits == {"1", "2", "3", "4", "5"}

PwAbc == <<"a", "b", "c", "1", "2", "3", "4", "5">>
PwHgf == <<"h", "g", "f", "5", "4", "3", "2", "1">>
PwShort == <<"a", "b", "1">>

Passwords == {PwAbc, PwHgf, PwShort}

\* The instants at which requests arrive: inside the resend interval, at its
\* end, and at the expiry of a reset and of a verification token issued at 0.
Times == {0, 1, ResendInterval, ResetTTL, VerificationTTL}

\* The token values a client can present: those the store can issue.
TokenValues == 1..(1 + Cardinality(Clients))

NoTime == -1
NoEmail == ""
NoPassword == <<>>
NoToken == 0

VARIABLES
    users,       \* the credential store: email -> user record
    tokens,      \* the token store: the issued tokens, a token's value is its index
    lastSent,    \* email -> time of the last verification send, NoTime if none
    now,         \* the clock
    inflight,    \* client -> email of its resend-verification request between
                 \* the two awaits of the handler, NoEmail if it has none there
    last,        \* the request answered last: its inputs, its response, what it saw
    verifyOk,    \* token -> number of 200 answers of /verify, counted up to 2
    registerOk,  \* email -> number of 200 answers of /register, counted up to 2
    mongodb,     \* the lifecycle of the database client of app.main
    logged       \* what app.main's logger has written

vars == <<users, tokens, lastSent, now, inflight, last, verifyOk, registerOk,
          mongodb, logged>>

\* ------------------------------------------------------------- responses
Resp(status, body) == [status |-> status, body |-> body]

WeakPasswordDetail == "Password must be at least 8 characters long and contain at least one number and one letter"

\* An exception that no handler catches: an HTTPException is answered with
\* its own status and detail, anything else with the server's plain 500.
Propagate(exc) ==
    IF exc.kind = "HTTPException"
    THEN Resp(exc.status, <<"detail", exc.text>>)
    ELSE Resp(500, <<"Internal Server Error">>)

Ok == [kind |-> "ok", status |-> 0, text |-> ""]
Raise(kind, text) == [kind |-> kind, status |-> 0, text |-> text]
RaiseHTTP(status, text) == [kind |-> "HTTPException", status |-> status, text |-> text]

\* ---------------------------------------------------------- AuthService
NoUser == [exists |-> FALSE, hash |-> <<>>, verified |-> FALSE]

Hash(p) == <<"$hash$">> \o p

verify_password(p, h) == Hash(p) = h

strength_ok(p) ==
    /\ Len(p) >= MinPasswordLength
    /\ \E i \in 1..Len(p) : p[i] \in Letters
    /\ \E i \in 1..Len(p) : p[i] \in Digits

NewToken(purpose, email, ttl) ==
    [purpose |-> purpose, email |-> email, expiry |-> now + ttl, consumed |-> FALSE]

\* A presented token is valid for a purpose when it is stored under that
\* purpose, not yet consumed, and the current time is before its expiry.
token_valid(t, purpose) ==
    /\ t \in 1..Len(tokens)
    /\ tokens[t].purpose = purpose
    /\ ~tokens[t].consumed
    /\ now < tokens[t].expiry

create_user_with_verification(email, password) ==
    IF ~strength_ok(password) THEN Raise("WeakPasswordError", "")
    ELSE IF users[email].exists THEN RaiseHTTP(400, "Email already registered")
    ELSE Ok

authenticate_user(email, password) ==
    /\ email \in Emails
    /\ users[email].exists
    /\ verify_password(password, users[email].hash)

update_password(user_id, current_password, new_password) ==
    IF ~verify_password(current_password, users[user_id].hash)
    THEN Raise("IncorrectPasswordError", "")
    ELSE IF new_password = current_password
    THEN Raise("ValueError", "New password must be different from current password")
    ELSE IF ~strength_ok(new_password) THEN Raise("WeakPasswordError", "")
    ELSE Ok

verify_email_token(token) ==
    IF ~token_valid(token, "verification") THEN Raise("InvalidTokenError", "") ELSE Ok

get_last_verification_sent(email) == lastSent[email]

resend_verification_email(email) ==
    IF ~users[email].exists THEN Raise("UserNotFoundError", "") ELSE Ok

send_password_reset(email) ==
    IF ~users[email].exists THEN Raise("UserNotFoundError", "") ELSE Ok

reset_password_token(token, new_password) ==
    IF ~token_valid(token, "password-reset") THEN Raise("InvalidTokenError", "")
    ELSE IF ~strength_ok(new_password) THEN Raise("WeakPasswordError", "")
    ELSE Ok

\* What each operation of the AuthService does to the stores when it does
\* not raise; an operation that raises leaves them as they were.
create_user_effect(exc, email, password, delivered) ==
    IF exc.kind = "ok"
    THEN /\ users' = [users EXCEPT ![email] =
                [exists |-> TRUE, hash |-> Hash(password), verified |-> FALSE]]
         /\ tokens' = Append(tokens, NewToken("verification", email, VerificationTTL))
         /\ lastSent' = IF delivered THEN [lastSent EXCEPT ![email] = now] ELSE lastSent
    ELSE UNCHANGED <<users, tokens, lastSent>>

update_password_effect(exc, user_id, new_password) ==
    users' = IF exc.kind = "ok"
             THEN [users EXCEPT ![user_id].hash = Hash(new_password)]
             ELSE users

\* The check of the token and its consumption are one step of the store.
verify_email_effect(exc, token) ==
    IF exc.kind = "ok"
    THEN /\ users' = [users EXCEPT ![tokens[token].email].verified = TRUE]
         /\ tokens' = [tokens EXCEPT ![token].consumed = TRUE]
    ELSE UNCHANGED <<users, tokens>>

resend_verification_effect(exc, email) ==
    IF exc.kind = "ok"
    THEN /\ tokens' = Append(tokens, NewToken("verification", email, VerificationTTL))
         /\ lastSent' = [lastSent EXCEPT ![email] = now]
    ELSE UNCHANGED <<tokens, lastSent>>

send_password_reset_effect(exc, email) ==
    tokens' = IF exc.kind = "ok"
              THEN Append(tokens, NewToken("password-reset", email, ResetTTL))
              ELSE tokens

reset_password_effect(exc, token, new_password) ==
    IF exc.kind = "ok"
    THEN /\ users' = [users EXCEPT ![tokens[token].email].hash = Hash(new_password)]
         /\ tokens' = [tokens EXCEPT ![token].consumed = TRUE]
    ELSE UNCHANGED <<users, tokens>>

\* The dependency that resolves the bearer of a request to the current user.
get_current_user(bearer) ==
    IF bearer = NoEmail THEN RaiseHTTP(403, "Not authenticated") ELSE Ok

create_access_token(sub) == <<"access_token", sub, "token_type", "bearer">>

\* ------------------------------------------------------ request records
Done(op, email, password, newpw, token, exc, resp, called) ==
    [op |-> op, email |-> email, password |-> password, newpw |-> newpw,
     token |-> token, exc |-> exc, resp |-> resp, called |-> called]

NoRequest ==
    Done("none", NoEmail, NoPassword, NoPassword, NoToken, Ok, Resp(0, <<>>), FALSE)

\* No answer is on its way to a client.
Quiet == last = NoRequest

\* Counts one more 200 answer for key k, up to 2.
Count(f, k, resp) ==
    IF resp.status = 200 /\ f[k] < 2 THEN [f EXCEPT ![k] = @ + 1] ELSE f

\* ------------------------------------------------------------------ Init
Init ==
    /\ users = [e \in Emails |-> NoUser]
    /\ tokens = <<>>
    /\ lastSent = [e \in Emails |-> NoTime]
    /\ now = 0
    /\ inflight = [c \in Clients |-> NoEmail]
    /\ last = NoRequest
    /\ verifyOk = [t \in TokenValues |-> 0]
    /\ registerOk = [e \in Emails |-> 0]
    /\ mongodb = "unset"
    /\ logged = {}

\* The clock advances between requests and between the awaits of a request.
Tick ==
    /\ Quiet
    /\ \E t \in Times : t > now /\ now' = t
    /\ UNCHANGED <<users, tokens, lastSent, inflight, last, verifyOk, registerOk,
                   mongodb, logged>>

\* ------------------------------------------------------- POST /register
\* A handler that turns whatever is not a weak password into a 500.
register_response_catch_all(exc, email) ==
    CASE exc.kind = "ok" -> Resp(200, <<"user", email>>)
      [] exc.kind = "WeakPasswordError" -> Resp(400, <<"detail", WeakPasswordDetail>>)
      [] OTHER -> Resp(500, <<"Internal Server Error">>)

register_response(exc, email) ==
    CASE exc.kind = "ok" -> Resp(200, <<"user", email>>)
      [] exc.kind = "WeakPasswordError" -> Resp(400, <<"detail", WeakPasswordDetail>>)
      [] OTHER -> Propagate(exc)

register(room) ==
    /\ Quiet
    /\ \E email \in Registrants, password \in Passwords, delivered \in BOOLEAN :
      LET exc == create_user_with_verification(email, password) IN
        /\ exc.kind = "ok" => Len(tokens) < room
        /\ exc.kind # "ok" => ~delivered
        /\ create_user_effect(exc, email, password, delivered)
        /\ last' = Done("register", email, password, NoPassword, NoToken, exc,
                        register_response(exc, email), TRUE)
        /\ registerOk' = Count(registerOk, email, register_response(exc, email))
        /\ UNCHANGED <<now, inflight, verifyOk, mongodb, logged>>

\* ---------------------------------------------------------- POST /login
\* A handler that forgets to test the result of authenticate_user.
login_response_unchecked(user, sub) == Resp(200, create_access_token(sub))

login_response(user, sub) ==
    IF ~user
    THEN Resp(401, <<"detail", "Incorrect email or password">>)
    ELSE Resp(200, create_access_token(sub))

login ==
    /\ Quiet
    /\ \E email \in Emails, password \in Passwords :
        /\ last' = Done("login", email, password, NoPassword, NoToken, Ok,
                        login_response(authenticate_user(email, password), email),
                        TRUE)
        /\ UNCHANGED <<users, tokens, lastSent, now, inflight, verifyOk, registerOk,
                       mongodb, logged>>

\* ------------------------------------------------ POST /change-password
\* A handler that answers a wrong current password like a bad new password.
change_password_response_400(exc) ==
    CASE exc.kind = "ok" -> Resp(200, <<"detail", "Password updated successfully">>)
      [] exc.kind = "IncorrectPasswordError" ->
            Resp(400, <<"detail", "Current password is incorrect">>)
      [] exc.kind = "ValueError" -> Resp(400, <<"detail", exc.text>>)
      [] exc.kind = "WeakPasswordError" -> Resp(400, <<"detail", WeakPasswordDetail>>)
      [] OTHER -> Propagate(exc)

change_password_response(exc) ==
    CASE exc.kind = "ok" -> Resp(200, <<"detail", "Password updated successfully">>)
      [] exc.kind = "IncorrectPasswordError" ->
            Resp(401, <<"detail", "Current password is incorrect">>)
      [] exc.kind = "ValueError" -> Resp(400, <<"detail", exc.text>>)
      [] exc.kind = "WeakPasswordError" -> Resp(400, <<"detail", WeakPasswordDetail>>)
      [] OTHER -> Propagate(exc)

change_password ==
    /\ Quiet
    /\ \E bearer \in {e \in Emails : users[e].exists} \cup {NoEmail},
       current_password \in Passwords, new_password \in Passwords :
      LET dep == get_current_user(bearer)
          exc == IF dep.kind = "ok"
                 THEN update_password(bearer, current_password, new_password)
                 ELSE dep
      IN
        /\ update_password_effect(exc, bearer, new_password)
        /\ last' = Done("change-password", bearer, current_password, new_password,
                        NoToken, exc, change_password_response(exc), dep.kind = "ok")
        /\ UNCHANGED <<tokens, lastSent, now, inflight, verifyOk, registerOk,
                       mongodb, logged>>

\* --------------------------------------------------- GET /verify/{token}
\* A handler that swallows InvalidTokenError.
verify_email_response_swallow(exc) ==
    Resp(200, <<"detail", "Email verified successfully">>)

\* A handler that answers every verification as a failure.
verify_email_response_always_400(exc) ==
    Resp(400, <<"detail", "Invalid or expired verification token">>)

verify_email_response(exc) ==
    CASE exc.kind = "ok" -> Resp(200, <<"detail", "Email verified successfully">>)
      [] exc.kind = "InvalidTokenError" ->
            Resp(400, <<"detail", "Invalid or expired verification token">>)
      [] OTHER -> Propagate(exc)

TokenOwner(token) == IF token \in 1..Len(tokens) THEN tokens[token].email ELSE NoEmail

verify_email ==
    /\ Quiet
    /\ \E token \in TokenValues :
      LET exc == verify_email_token(token) IN
        /\ verify_email_effect(exc, token)
        /\ verifyOk' = Count(verifyOk, token, verify_email_response(exc))
        /\ last' = Done("verify", TokenOwner(token), NoPassword, NoPassword, token,
                        exc, verify_email_response(exc), TRUE)
        /\ UNCHANGED <<lastSent, now, inflight, registerOk, mongodb, logged>>

\* ----------------------------------------------- POST /resend-verification
\* The handler's test on its locals last_sent and current_time.
\* The interval of one minute in place of two.
rate_limited_one_minute(last_sent, current_time) ==
    /\ last_sent # NoTime
    /\ current_time - last_sent < 1

rate_limited(last_sent, current_time) ==
    /\ last_sent # NoTime
    /\ current_time - last_sent < ResendInterval

RateLimitExceeded ==
    RaiseHTTP(429, "Please wait 2 minutes before requesting another verification email")

resend_verification_response(exc) ==
    CASE exc.kind = "ok" -> Resp(200, <<"detail", "Verification email resent">>)
      [] exc.kind = "UserNotFoundError" -> Resp(404, <<"detail", "User not found">>)
      [] OTHER -> Propagate(exc)

\* First await: read the last-sent time and decide; a rejected request is
\* answered here, an admitted one goes on to its second await.
resend_verification_check(c) ==
    /\ Quiet
    /\ inflight[c] = NoEmail
    /\ \E email \in Emails :
         LET last_sent == get_last_verification_sent(email) IN
           IF rate_limited(last_sent, now)
           THEN /\ last' = Done("resend-verification", email, NoPassword, NoPassword,
                                NoToken, RateLimitExceeded,
                                resend_verification_response(RateLimitExceeded), FALSE)
                /\ UNCHANGED inflight
           ELSE /\ inflight' = [inflight EXCEPT ![c] = email]
                /\ UNCHANGED last
    /\ UNCHANGED <<users, tokens, lastSent, now, verifyOk, registerOk,
                   mongodb, logged>>

\* Second await: the call of AuthService.resend_verification and the answer.
resend_verification_send(c, room) ==
    /\ Quiet
    /\ inflight[c] # NoEmail
    /\ LET email == inflight[c]
           exc == resend_verification_email(email)
       IN  /\ exc.kind = "ok" => Len(tokens) < room
           /\ resend_verification_effect(exc, email)
           /\ last' = Done("resend-verification", email, NoPassword, NoPassword, NoToken,
                           exc, resend_verification_response(exc), TRUE)
           /\ inflight' = [inflight EXCEPT ![c] = NoEmail]
    /\ UNCHANGED <<users, now, verifyOk, registerOk, mongodb, logged>>

\* ------------------------------------------------- POST /forgot-password
\* A handler that answers an unknown email as resend-verification does.
forgot_password_response_404(exc) ==
    CASE exc.kind = "ok" -> Resp(200, <<"detail", "Password reset email sent">>)
      [] exc.kind = "UserNotFoundError" -> Resp(404, <<"detail", "User not found">>)
      [] OTHER -> Propagate(exc)

forgot_password_response(exc) ==
    CASE exc.kind = "ok" -> Resp(200, <<"detail", "Password reset email sent">>)
      [] exc.kind = "UserNotFoundError" -> Resp(200, <<"detail", "Password reset email sent">>)
      [] OTHER -> Propagate(exc)

forgot_password ==
    /\ Quiet
    /\ \E email \in Emails :
      LET exc == send_password_reset(email) IN
        /\ exc.kind = "ok" => Len(tokens) < MaxTokens
        /\ send_password_reset_effect(exc, email)
        /\ last' = Done("forgot-password", email, NoPassword, NoPassword, NoToken,
                        exc, forgot_password_response(exc), TRUE)
        /\ UNCHANGED <<users, lastSent, now, inflight, verifyOk, registerOk,
                       mongodb, logged>>

\* ------------------------------------------ POST /reset-password/{token}
\* A handler that does not catch InvalidTokenError.
reset_password_response_uncaught(exc) ==
    CASE exc.kind = "ok" -> Resp(200, <<"detail", "Password reset successfully">>)
      [] exc.kind = "WeakPasswordError" -> Resp(400, <<"detail", WeakPasswordDetail>>)
      [] OTHER -> Propagate(exc)

reset_password_response(exc) ==
    CASE exc.kind = "ok" -> Resp(200, <<"detail", "Password reset successfully">>)
      [] exc.kind = "InvalidTokenError" ->
            Resp(400, <<"detail", "Invalid or expired reset token">>)
      [] exc.kind = "WeakPasswordError" -> Resp(400, <<"detail", WeakPasswordDetail>>)
      [] OTHER -> Propagate(exc)

reset_password ==
    /\ Quiet
    /\ \E token \in TokenValues, new_password \in Passwords :
      LET exc == reset_password_token(token, new_password) IN
        /\ reset_password_effect(exc, token, new_password)
        /\ last' = Done("reset-password", TokenOwner(token), NoPassword, new_password,
                        token, exc, reset_password_response(exc), TRUE)
        /\ UNCHANGED <<lastSent, now, inflight, verifyOk, registerOk,
                       mongodb, logged>>

\* ------------------------------------------------------ POST /test-email
\* What the collaborators outside the handlers can raise, as text.
Texts == {"SMTP AUTH failed for user admin", "Connection refused"}

Failures == {Raise("Exception", t) : t \in Texts}

StatusText(status) ==
    CASE status = 400 -> "400" [] status = 500 -> "500" [] OTHER -> "?"

\* str(e)
Str(exc) ==
    IF exc.kind = "HTTPException"
    THEN <<StatusText(exc.status), ": ", exc.text>>
    ELSE <<exc.text>>

TestFailed ==
    RaiseHTTP(500, "Email configuration test failed - check server logs for details")

\* test_email_connection() answers True or False or raises; the handler's
\* own HTTPException is raised inside its try block.
test_email_response(success, exc) ==
    IF exc.kind = "ok" /\ success
    THEN Resp(200, <<"detail", "Email configuration test passed - emails should be working">>)
    ELSE LET e == IF exc.kind = "ok" THEN TestFailed ELSE exc
         IN Resp(500, <<"detail", "Email test failed: ">> \o Str(e))

test_email ==
    /\ Quiet
    /\ \E success \in BOOLEAN, exc \in {Ok} \cup Failures :
         /\ exc.kind # "ok" => ~success
         /\ last' = Done("test-email", NoEmail, NoPassword, NoPassword, NoToken,
                         exc, test_email_response(success, exc), TRUE)
    /\ UNCHANGED <<users, tokens, lastSent, now, inflight, verifyOk, registerOk,
                   mongodb, logged>>

\* ------------------------------------------ POST /test-alternative-email
test_alternative_email_response(exc) ==
    IF exc.kind = "ok"
    THEN Resp(200, <<"detail", "Alternative email test passed - Gmail SMTP is working">>)
    ELSE Resp(500, <<"detail", "Alternative email test failed: ">> \o Str(exc))

test_alternative_email ==
    /\ Quiet
    /\ \E exc \in {Ok} \cup Failures :
         last' = Done("test-alternative-email", NoEmail, NoPassword, NoPassword,
                      NoToken, exc, test_alternative_email_response(exc), TRUE)
    /\ UNCHANGED <<users, tokens, lastSent, now, inflight, verifyOk, registerOk,
                   mongodb, logged>>

\* --------------------------------------------------------- app.main
startup_db_client ==
    /\ Quiet
    /\ mongodb = "unset"
    /\ mongodb' = "open"
    /\ UNCHANGED <<users, tokens, lastSent, now, inflight, last, verifyOk,
                   registerOk, logged>>

shutdown_db_client ==
    /\ Quiet
    /\ mongodb = "open"
    /\ mongodb' = "closed"
    /\ UNCHANGED <<users, tokens, lastSent, now, inflight, last, verifyOk,
                   registerOk, logged>>

root ==
    /\ Quiet
    /\ last' = Done("root", NoEmail, NoPassword, NoPassword, NoToken, Ok,
                    Resp(200, <<"message", "Hello World">>), FALSE)
    /\ UNCHANGED <<users, tokens, lastSent, now, inflight, verifyOk, registerOk,
                   mongodb, logged>>

\* ---------------------------------------------------------- POST /webhook
MissingSignature == RaiseHTTP(400, "Missing Stripe signature")

NoMongodb == Raise("AttributeError", "'FastAPI' object has no attribute 'mongodb'")

\* What StripeService.handle_webhook can do with a body and a signature.
WebhookOutcomes == {Ok, RaiseHTTP(400, "Invalid signature")} \cup Failures

stripe_webhook_response(exc) ==
    CASE exc.kind = "ok" -> Resp(200, <<"status", "success">>)
      [] exc.kind = "HTTPException" -> Propagate(exc)
      [] OTHER -> Resp(500, <<"detail", "Internal server error">>)

stripe_webhook_direct ==
    /\ Quiet
    /\ \E stripe_signature \in BOOLEAN, outcome \in WebhookOutcomes :
         LET exc == IF ~stripe_signature THEN MissingSignature
                    ELSE IF mongodb = "unset" THEN NoMongodb
                    ELSE outcome
             caught == stripe_signature /\ exc.kind \notin {"ok", "HTTPException"}
         IN
           /\ ~stripe_signature \/ mongodb = "unset" => outcome = Ok
           /\ logged' = IF caught
                        THEN logged \cup {<<"Error processing webhook: ">> \o Str(exc)}
                        ELSE logged
           /\ last' = Done("webhook", NoEmail, NoPassword, NoPassword, NoToken,
                           exc, stripe_webhook_response(exc), stripe_signature)
    /\ UNCHANGED <<users, tokens, lastSent, now, inflight, verifyOk, registerOk,
                   mongodb>>

\* The answer of the last request reaches its client.
deliver ==
    /\ ~Quiet
    /\ last' = NoRequest
    /\ UNCHANGED <<users, tokens, lastSent, now, inflight, verifyOk, registerOk,
                   mongodb, logged>>

Next ==
    \/ Tick
    \/ register(MaxTokens)
    \/ login
    \/ change_password
    \/ verify_email
    \/ \E c \in Clients : resend_verification_check(c)
    \/ \E c \in Clients : resend_verification_send(c, MaxTokens)
    \/ forgot_password
    \/ reset_password
    \/ deliver

Spec == Init /\ [][Next]_vars

\* Registration and the resend-verification handler alone, with a token
\* store that has room for the registration's token and one token for each
\* client.
RaceTokens == 1 + Cardinality(Clients)

NextRace ==
    \/ Tick
    \/ register(RaceTokens)
    \/ \E c \in Clients : resend_verification_check(c)
    \/ \E c \in Clients : resend_verification_send(c, RaceTokens)
    \/ deliver

SpecRace == Init /\ [][NextRace]_vars

\* The handlers that are no part of the credential lifecycle, and app.main.
NextOps ==
    \/ startup_db_client
    \/ shutdown_db_client
    \/ root
    \/ stripe_webhook_direct
    \/ test_email
    \/ test_alternative_email
    \/ deliver

SpecOps == Init /\ [][NextOps]_vars

\* ================================================================ claims
\* A step that answers a request of the given kind.
Answers(op) == Quiet /\ last'.op = op

IsToken(t) == t \in 1..Len(tokens)

\* ------------------------------------------------------------------- C1
\* C1: a resend-verification request that finds a previous send less than
\* 2 minutes old is answered 429 without a call of resend_verification and
\* without a change of the stores; a request is rejected in no other case;
\* the call of an admitted request for a user is answered 200 and sets the
\* last-sent time to the time of the call.
C1_ResendRateLimit ==
    [][\A e \in Emails :
         LET limited == lastSent[e] # NoTime /\ now - lastSent[e] < ResendInterval
             rejected == /\ Answers("resend-verification")
                         /\ last'.email = e
                         /\ ~last'.called
             admitted == \E c \in Clients : inflight[c] = NoEmail /\ inflight'[c] = e
             called == /\ Answers("resend-verification")
                       /\ last'.email = e
                       /\ last'.called
         IN /\ called => last'.resp.status # 429
            /\ rejected => /\ limited
                           /\ last'.resp.status = 429
                           /\ lastSent' = lastSent
                           /\ tokens' = tokens
            /\ admitted => ~limited
            /\ called /\ users[e].exists => /\ last'.resp.status = 200
                                            /\ lastSent'[e] = now
    ]_vars

\* A request rejected within 2 minutes of an earlier resend that itself was
\* admitted 2 minutes or more after the registration.
C1_Witness ==
    /\ last.op = "resend-verification"
    /\ last.resp.status = 429
    /\ Len(tokens) >= 2
    /\ tokens[1].purpose = "verification"
    /\ tokens[2].purpose = "verification"
    /\ tokens[2].expiry - tokens[1].expiry >= ResendInterval
    /\ lastSent[last.email] = tokens[2].expiry - VerificationTTL

\* ------------------------------------------------------------------- C2
\* C2: of all the /verify requests that present one token, at most one is
\* answered 200; every other one fails with InvalidTokenError and is
\* answered 400.
C2_VerifyAtMostOnce ==
    /\ \A t \in TokenValues : verifyOk[t] <= 1
    /\ last.op = "verify" /\ last.resp.status # 200 =>
          /\ last.exc.kind = "InvalidTokenError"
          /\ last.resp.status = 400

\* The second use of a token that has verified its user.
C2_Witness ==
    /\ last.op = "verify"
    /\ last.resp.status = 400
    /\ verifyOk[last.token] = 1
    /\ IsToken(last.token)
    /\ tokens[last.token].consumed

\* ------------------------------------------------------------------- C3
\* C3: /forgot-password is answered 200 with the detail "Password reset
\* email sent" for every email, registered or not.
C3_ForgotPasswordUniform ==
    last.op = "forgot-password" =>
        last.resp = Resp(200, <<"detail", "Password reset email sent">>)

\* A request for an email that no user has.
C3_Witness ==
    /\ last.op = "forgot-password"
    /\ ~users[last.email].exists
    /\ last.exc.kind = "UserNotFoundError"
    /\ \E e \in Emails : users[e].exists

C5_ChangePasswordOrder ==
    [][\A e \in Emails :
         Answers("change-password") /\ last'.email = e /\ last'.called =>
           LET correct == users[e].hash = Hash(last'.password) IN
             /\ correct /\ last'.newpw = last'.password =>
                   /\ last'.resp.status = 400
                   /\ users'[e].hash = users[e].hash
             /\ ~correct =>
                   /\ last'.resp.status = 401
                   /\ users'[e].hash = users[e].hash
    ]_vars

\* The right current password given as the new password as well.
C5_Witness ==
    /\ last.op = "change-password"
    /\ last.called
    /\ last.newpw = last.password
    /\ users[last.email].hash = Hash(last.password)
    /\ last.resp.status = 400

\* ------------------------------------------------------------------- C6
\* C6: an exception that is none of the mapped errors is answered 500 with
\* a body that holds no text of the exception.
C6_GenericServerError ==
    last.exc.kind \notin {"ok", "HTTPException", "WeakPasswordError",
                          "IncorrectPasswordError", "InvalidTokenError",
                          "UserNotFoundError", "ValueError"} =>
        /\ last.resp.status = 500
        /\ \A i \in 1..Len(last.resp.body) : last.resp.body[i] # last.exc.text

\* ------------------------------------------------------------------- C7
\* C7: a verified user stays verified; a user becomes verified only in a
\* step that answers a /verify request with 200.
C7_VerifiedMonotonic ==
    [][\A e \in Emails :
         /\ users[e].verified => users'[e].verified
         /\ ~users[e].verified /\ users'[e].verified =>
               /\ Answers("verify")
               /\ last'.resp.status = 200
               /\ last'.email = e
    ]_vars

\* A verified user whose password has since been reset.
C7_Witness ==
    /\ last.op = "reset-password"
    /\ last.resp.status = 200
    /\ users[last.email].verified

\* ------------------------------------------------------------------- C8
\* C8: /login is answered 200 with an access token and the token type
\* bearer when the email has a user whose stored hash is that of the given
\* password, and 401 otherwise, verified or not.
C8_LoginIffPassword ==
    last.op = "login" =>
        IF users[last.email].exists /\ users[last.email].hash = Hash(last.password)
        THEN /\ last.resp.status = 200
             /\ Len(last.resp.body) = 4
             /\ last.resp.body[1] = "access_token"
             /\ last.resp.body[3] = "token_type"
             /\ last.resp.body[4] = "bearer"
        ELSE last.resp.status = 401

\* A login of a user who has not verified the email.
C8_Witness ==
    /\ last.op = "login"
    /\ last.resp.status = 200
    /\ ~users[last.email].verified

\* ------------------------------------------------------------------- C9
\* C9: a reset token lasts 60 minutes; a reset-password request with an
\* unconsumed reset token at or after its expiry is answered 400 even with
\* a strong password; that request, and one with a weak password, change
\* neither a stored hash nor a token.
C9_ResetExpiry ==
    [][/\ Answers("forgot-password") /\ tokens' # tokens =>
            tokens'[Len(tokens')].expiry = now + 60
       /\ \A t \in TokenValues :
            Answers("reset-password") /\ last'.token = t /\ IsToken(t) =>
              LET live == tokens[t].purpose = "password-reset" /\ ~tokens[t].consumed
                  late == now >= tokens[t].expiry
              IN /\ live /\ late => /\ last'.resp.status = 400
                                    /\ users' = users
                                    /\ tokens' = tokens
                 /\ live /\ ~strength_ok(last'.newpw) =>
                                    /\ last'.resp.status = 400
                                    /\ users' = users
                                    /\ tokens' = tokens
    ]_vars

\* A strong password presented with an unconsumed token at its expiry time.
C9_Witness ==
    /\ last.op = "reset-password"
    /\ last.resp.status = 400
    /\ strength_ok(last.newpw)
    /\ IsToken(last.token)
    /\ tokens[last.token].purpose = "password-reset"
    /\ ~tokens[last.token].consumed
    /\ now = tokens[last.token].expiry

\* ------------------------------------------------------------------ C10
\* C10: resend requests for one email reach resend_verification at most
\* once in 2 minutes, however they interleave: any two verification tokens
\* of a user that were issued by resend requests (the first one is the
\* registration's) are 2 minutes or more apart.
C10_ResendRaceFree ==
    \A i, j \in 1..Len(tokens) :
        /\ i < j
        /\ tokens[i].purpose = "verification"
        /\ tokens[j].purpose = "verification"
        /\ tokens[i].email = tokens[j].email
        /\ \E k \in 1..(i - 1) : /\ tokens[k].purpose = "verification"
                                 /\ tokens[k].email = tokens[i].email
        => tokens[j].expiry - tokens[i].expiry >= ResendInterval

====
